---- MODULE Spec2Model ----
(***************************************************************************)
(* Model of MutualFundMonitor (src/mf.py): a dataset loaded into a frame,  *)
(* preprocess_data (date parsing + sort), filter_data (date range) and     *)
(* summarize_changes (monthly mean / standard deviation of a metric).      *)
(*                                                                         *)
(* A timestamp is a number of ticks; TicksPerDay ticks make a day and      *)
(* DaysPerMonth days make a month.  Tick 0 of a day is midnight.           *)
(***************************************************************************)
EXTENDS Integers, Sequences, FiniteSets, TLC

\* ------------------------------------------------------------------ bounds
MaxRows == 2
MaxDay == 2

\* Resolution of a parsed Date below the day, and the length of a month.
TicksPerDay == 2
DaysPerMonth == 2

Days == 0..MaxDay
Ticks == 0..(TicksPerDay - 1)

\* ------------------------------------------------------------ cell values
\* The text of a Date cell of the file: a date with a time of day, or junk.
DateText(d, t) == [ok |-> TRUE, day |-> d, tick |-> t]
JunkText == [ok |-> FALSE, day |-> 0, tick |-> 0]
DateTexts == {DateText(d, t) : d \in Days, t \in Ticks} \cup {JunkText}

\* A query parameter: a 'YYYY-MM-DD' string (it names a day), or junk.
QueryText(d) == [ok |-> TRUE, day |-> d]
JunkQuery == [ok |-> FALSE, day |-> 0]
DayQueries == {QueryText(d) : d \in Days}
\* The (start, end) pairs passed: every pair of days, and one pair for each way
\* a parameter can be junk.
QueryPairs ==
    (DayQueries \X DayQueries)
        \cup {<<JunkQuery, QueryText(0)>>, <<QueryText(0), JunkQuery>>,
              <<JunkQuery, JunkQuery>>}

\* A metric cell: a number, a missing value, or a text that is no number.
Num(v) == [k |-> "num", v |-> v]
NaN == [k |-> "nan", v |-> 0]
Str == [k |-> "str", v |-> 0]
MetricValues == {1, 2}
MetricCells == {Num(v) : v \in MetricValues} \cup {NaN, Str}

\* Metric names a caller may pass; the file's columns are Date and NAV.
FileColumns == <<"Date", "NAV">>
MetricNames == {"NAV", "nav", "Month"}

\* ---------------------------------------------------------------- helpers
Range(s) == {s[i] : i \in 1..Len(s)}

SeqsUpTo(S, n) == UNION {[1..k -> S] : k \in 0..n}

RECURSIVE SumSeq(_)
SumSeq(s) == IF s = <<>> THEN 0 ELSE Head(s) + SumSeq(Tail(s))

RECURSIVE GCD(_, _)
GCD(a, b) == IF b = 0 THEN a ELSE GCD(b, a % b)

Min(S) == CHOOSE x \in S : \A y \in S : x <= y

RECURSIVE SortedSeq(_)
SortedSeq(S) == IF S = {} THEN <<>> ELSE <<Min(S)>> \o SortedSeq(S \ {Min(S)})

\* ----------------------------------------------------------------- frames
Frame(cols, dateDtype, navDtype, rows) ==
    [live |-> TRUE, cols |-> cols, dateDtype |-> dateDtype,
     navDtype |-> navDtype, rows |-> rows]

NoFrame ==
    [live |-> FALSE, cols |-> <<>>, dateDtype |-> "object",
     navDtype |-> "object", rows |-> <<>>]

\* read_csv: rows keep the file's order; a column holding a text that is no
\* number, and every column of a file without rows, has dtype object.
LoadData(file) ==
    Frame(FileColumns, "object",
          IF file = <<>> \/ \E i \in 1..Len(file) : file[i].NAV = Str
          THEN "object" ELSE "float64",
          [i \in 1..Len(file) |->
              [id |-> i, Date |-> file[i].Date, NAV |-> file[i].NAV]])

\* The files, in three families: dates of every day and time of day with one
\* metric value; junk dates among well-formed ones; every metric cell on the
\* first and the last day, at midnight.
TimedFamilyRows ==
    {[Date |-> t, NAV |-> Num(1)] : t \in DateTexts \ {JunkText}}
JunkFamilyRows == {[Date |-> t, NAV |-> Num(1)] : t \in {JunkText, DateText(0, 0)}}
MetricFamilyRows ==
    {[Date |-> DateText(d, 0), NAV |-> c] : d \in {0, MaxDay}, c \in MetricCells}
Files ==
    SeqsUpTo(TimedFamilyRows, MaxRows) \cup SeqsUpTo(JunkFamilyRows, MaxRows)
        \cup SeqsUpTo(MetricFamilyRows, MaxRows)

VARIABLES data, filtered, call
vars == <<data, filtered, call>>

NoCall(op) ==
    [op |-> op, start |-> JunkQuery, end |-> JunkQuery, metric |-> "",
     err |-> "none", summary |-> <<>>]

Init ==
    /\ data \in {LoadData(f) : f \in Files}
    /\ filtered = NoFrame
    /\ call = NoCall("load")

\* -------------------------------------------------------- preprocess_data
\* pd.to_datetime of one cell text.
ToDatetime(text) == text.day * TicksPerDay + text.tick

IsSortedByDate(rows) ==
    \A i, j \in 1..Len(rows) : i < j => rows[i].Date <= rows[j].Date

Permute(rows, p) == [i \in 1..Len(rows) |-> rows[p[i]]]

\* sort_values(by=['Date']) with the default kind ('quicksort'), which does
\* not promise an order among equal keys: any ascending arrangement.
SortValues(rows) ==
    {Permute(rows, p) : p \in {q \in Permutations(1..Len(rows)) :
                                  IsSortedByDate(Permute(rows, q))}}

ParsedRows(d) ==
    IF d.dateDtype = "datetime64" THEN d.rows
    ELSE [i \in 1..Len(d.rows) |->
             [d.rows[i] EXCEPT !.Date = ToDatetime(d.rows[i].Date)]]

HasJunkDate(d) ==
    /\ d.dateDtype = "object"
    /\ \E i \in 1..Len(d.rows) : ~d.rows[i].Date.ok

\* A variant that drops the rows it cannot parse before it raises.
PreprocessDroppingJunk(d) ==
    IF HasJunkDate(d)
    THEN {[err |-> "ValueError",
           data |-> [d EXCEPT !.rows = SelectSeq(d.rows, LAMBDA r : r.Date.ok)]]}
    ELSE {[err |-> "none",
           data |-> [d EXCEPT !.dateDtype = "datetime64", !.rows = s]] :
             s \in SortValues(ParsedRows(d))}

\* The outcomes of preprocess_data: to_datetime raises before the column is
\* assigned, else the column is replaced and the frame sorted in place.
PreprocessOutcomes(d) ==
    IF HasJunkDate(d)
    THEN {[err |-> "ValueError", data |-> d]}
    ELSE {[err |-> "none",
           data |-> [d EXCEPT !.dateDtype = "datetime64", !.rows = s]] :
             s \in SortValues(ParsedRows(d))}

PreprocessData ==
    \E o \in PreprocessOutcomes(data) :
        /\ data' = o.data
        /\ call' = [NoCall("preprocess") EXCEPT !.err = o.err]
        /\ UNCHANGED filtered

\* ------------------------------------------------------------ filter_data
\* datetime.strptime(s, '%Y-%m-%d'): midnight of the day named.
Strptime(q) == q.day * TicksPerDay

\* A variant that joins the two comparisons with | instead of &.
InRangeEither(ts, lo, hi) == ts >= lo \/ ts <= hi

InRange(ts, lo, hi) == ts >= lo /\ ts <= hi

RECURSIVE SelectRows(_, _, _)
SelectRows(rows, lo, hi) ==
    IF rows = <<>> THEN <<>>
    ELSE (IF InRange(Head(rows).Date, lo, hi) THEN <<Head(rows)>> ELSE <<>>)
         \o SelectRows(Tail(rows), lo, hi)

\* [err, frame] of filter_data(start, end) on frame d.
FilterOutcome(d, start, end) ==
    IF ~start.ok \/ ~end.ok
    THEN [err |-> "ValueError", frame |-> NoFrame]
    ELSE IF d.dateDtype = "object"
    THEN IF d.rows # <<>>
         THEN [err |-> "TypeError", frame |-> NoFrame]
         ELSE [err |-> "none", frame |-> d]
    ELSE [err |-> "none",
          frame |-> [d EXCEPT !.rows =
                        SelectRows(d.rows, Strptime(start), Strptime(end))]]

FilterData ==
    \E q \in QueryPairs :
        LET start == q[1]
            end == q[2]
            o == FilterOutcome(data, start, end)
        IN
        /\ filtered' = IF o.err = "none" THEN o.frame ELSE filtered
        /\ call' = [NoCall("filter") EXCEPT
                       !.start = start, !.end = end, !.err = o.err]
        /\ UNCHANGED data

\* ------------------------------------------------------ summarize_changes
Lower(name) ==
    IF name = "NAV" THEN "nav"
    ELSE IF name = "Date" THEN "date"
    ELSE IF name = "Month" THEN "month"
    ELSE name

\* A variant that matches the name without regard to case.
HasColumnIgnoreCase(f, metric) ==
    Lower(metric) \in {Lower(c) : c \in Range(f.cols)}

\* `metric not in filtered_data.columns`: an exact match of the name.
HasColumn(f, metric) == metric \in Range(f.cols)

\* A variant that keeps the day: to_period('D').
ToPeriodDay(ts) == ts \div TicksPerDay

\* Series.dt.to_period('M'): the month a timestamp falls in.
ToPeriod(ts) == ts \div (TicksPerDay * DaysPerMonth)

\* filtered_data['Month'] = ...: the column is added, or overwritten.
WithMonth(f) ==
    IF "Month" \in Range(f.cols) THEN f
    ELSE [f EXCEPT !.cols = Append(f.cols, "Month")]

\* groupby('Month') with the default sort=True: the keys present, ascending.
GroupKeys(rows) == SortedSeq({ToPeriod(rows[i].Date) : i \in 1..Len(rows)})

RECURSIVE BucketValues(_, _)
\* The numbers of the bucket's NAV cells; missing cells are skipped.
BucketValues(rows, p) ==
    IF rows = <<>> THEN <<>>
    ELSE (IF ToPeriod(Head(rows).Date) = p /\ Head(rows).NAV.k = "num"
          THEN <<Head(rows).NAV.v>> ELSE <<>>)
         \o BucketValues(Tail(rows), p)

\* A statistic: not-a-number, a fraction n/d in lowest terms ("num"), or the
\* square root of such a fraction ("sqrt").
NaNStat == [k |-> "nan", n |-> 0, d |-> 1]
Ratio(kind, n, d) ==
    LET g == GCD(n, d) IN [k |-> kind, n |-> n \div g, d |-> d \div g]

MeanOf(vals) ==
    IF vals = <<>> THEN NaNStat
    ELSE Ratio("num", SumSeq(vals), Len(vals))

\* The square root of sum((x - mean)^2) / (N - ddof); undefined when the
\* denominator is not positive.
StdWithDdof(vals, ddof) ==
    LET n == Len(vals)
        s == SumSeq(vals)
        m2 == SumSeq([i \in 1..n |-> (n * vals[i] - s) * (n * vals[i] - s)])
    IN  IF n - ddof <= 0 THEN NaNStat
        ELSE Ratio("sqrt", m2, n * n * (n - ddof))

\* A variant with ddof=0, the population standard deviation.
StdPopulation(vals) == StdWithDdof(vals, 0)

\* GroupBy 'std': the default ddof=1.
StdOf(vals) == StdWithDdof(vals, 1)

Aggregate(rows) ==
    LET keys == GroupKeys(rows) IN
    [i \in 1..Len(keys) |->
        [Month |-> keys[i],
         mean |-> MeanOf(BucketValues(rows, keys[i])),
         std |-> StdOf(BucketValues(rows, keys[i]))]]

Outcome(err, f, summary) == [err |-> err, frame |-> f, summary |-> summary]

\* The outcomes of summarize_changes(f, metric): the frame f as the call
\* leaves it, and the summary returned.
\*  - line 60: the metric is no column: ValueError, f untouched;
\*  - line 63: .dt on a Date column that was never parsed: AttributeError;
\*    else the Month column is set on f itself;
\*  - line 64: the grouping key is no column of the grouped selection
\*    (KeyError for metric 'Month'); 'mean'/'std' of an object column fail
\*    on a frame with rows, and on one without rows they fail or give an
\*    empty summary, by the version of the library.
SummarizeOutcomes(f, metric) ==
    IF ~HasColumn(f, metric)
    THEN {Outcome("ValueError", f, <<>>)}
    ELSE IF f.dateDtype # "datetime64"
    THEN {Outcome("AttributeError", f, <<>>)}
    ELSE IF metric = "Month"
    THEN {Outcome("KeyError", WithMonth(f), <<>>)}
    ELSE IF f.navDtype = "object"
    THEN IF f.rows # <<>>
         THEN {Outcome("TypeError", WithMonth(f), <<>>)}
         ELSE {Outcome("DataError", WithMonth(f), <<>>),
               Outcome("none", WithMonth(f), <<>>)}
    ELSE {Outcome("none", WithMonth(f), Aggregate(f.rows))}

SummarizeChanges ==
    /\ filtered.live
    /\ \E metric \in MetricNames :
         \E o \in SummarizeOutcomes(filtered, metric) :
            /\ filtered' = o.frame
            /\ call' = [NoCall("summarize") EXCEPT
                           !.metric = metric, !.err = o.err,
                           !.summary = o.summary]
            /\ UNCHANGED data

Next == PreprocessData \/ FilterData \/ SummarizeChanges

Spec == Init /\ [][Next]_vars

\* ================================================================= claims
\* The calendar day and month of a parsed Date, and the rows of a bucket.
DayOf(ts) == ts \div TicksPerDay
MonthOfRow(r) == DayOf(r.Date) \div DaysPerMonth
RowsDatedWithin(rows, start, end) ==
    SelectSeq(rows, LAMBDA r : start.day <= DayOf(r.Date) /\ DayOf(r.Date) <= end.day)
RowsOfMonth(rows, p) == SelectSeq(rows, LAMBDA r : MonthOfRow(r) = p)
ValidValues(rows) ==
    LET valid == SelectSeq(rows, LAMBDA r : r.NAV.k = "num")
    IN  [i \in 1..Len(valid) |-> valid[i].NAV.v]
SumOfSquares(x) == SumSeq([i \in 1..Len(x) |-> x[i] * x[i]])
\* strftime('%Y-%m-%d') of a parsed Date.
DateString(ts) == QueryText(DayOf(ts))
Normalized == data.dateDtype = "datetime64"
ValidRange == call.op = "filter" /\ call.start.ok /\ call.end.ok

\* C1: on a normalized dataset, filter with valid dates start <= end returns
\* exactly the rows dated from the start day to the end day, both days
\* included, in the dataset's order, and raises nothing.
C1_FilterInclusiveRange ==
    (ValidRange /\ Normalized /\ call.start.day <= call.end.day)
        => /\ call.err = "none"
           /\ filtered.rows = RowsDatedWithin(data.rows, call.start, call.end)

\* C2: on a normalized dataset with rows, filter from the 'YYYY-MM-DD' string
\* of the minimum Date to that of the maximum Date returns every row, in order.
C2_MinMaxRoundTrip ==
    (/\ ValidRange /\ Normalized /\ data.rows # <<>>
     /\ call.start = DateString(data.rows[1].Date)
     /\ call.end = DateString(data.rows[Len(data.rows)].Date))
        => /\ call.err = "none"
           /\ filtered.rows = data.rows

\* The call summarized the numeric metric column of a frame of parsed dates.
SummarizedNumeric ==
    /\ call.op = "summarize" /\ call.metric = "NAV"
    /\ filtered.navDtype = "float64" /\ filtered.dateDtype = "datetime64"

C4_UnknownMetricIffNoColumn ==
    call.op = "summarize"
        => /\ (call.err = "ValueError") <=> (call.metric \notin Range(filtered.cols))
           /\ (call.err = "ValueError" => call.summary = <<>>)

C4_Witness ==
    /\ call.op = "summarize" /\ call.err = "ValueError" /\ call.metric = "nav"
    /\ "NAV" \in Range(filtered.cols)

\* C5: in every record of a summary, std is the sample standard deviation
\* (denominator N-1) of the bucket's values: not-a-number for a bucket of one
\* row, exactly 0 for a bucket of two or more rows with one and the same value.
C5_SampleStd ==
    (call.op = "summarize" /\ call.err = "none")
        => \A i \in 1..Len(call.summary) :
             LET rec == call.summary[i]
                 b == RowsOfMonth(filtered.rows, rec.Month)
                 x == ValidValues(b)
                 n == Len(x)
                 s == SumSeq(x)
             IN  /\ (Len(b) = 1 => rec.std = NaNStat)
                 /\ (Len(b) >= 2 /\ (\E v \in MetricValues :
                                        \A j \in 1..Len(b) : b[j].NAV = Num(v)))
                       => (rec.std.k = "sqrt" /\ rec.std.n = 0)
                 /\ (n >= 2 => /\ rec.std.k = "sqrt"
                               /\ rec.std.n * (n * (n - 1))
                                    = rec.std.d * (n * SumOfSquares(x) - s * s))
                 /\ (n < 2 => rec.std = NaNStat)

C5_Witness ==
    /\ call.op = "summarize" /\ call.err = "none"
    /\ \E i \in 1..Len(call.summary) :
          /\ call.summary[i].std.k = "sqrt" /\ call.summary[i].std.n = 0
          /\ Len(RowsOfMonth(filtered.rows, call.summary[i].Month)) >= 2

\* C6: summarize of the metric column of a frame with rows raises nothing and,
\* per bucket, gives the mean and std of the cells that are numbers, leaving
\* out the missing and the non-numeric ones; both are not-a-number when the
\* bucket has no number.
C6_NonNumericExcluded ==
    (/\ call.op = "summarize" /\ call.metric = "NAV"
     /\ filtered.dateDtype = "datetime64" /\ filtered.rows # <<>>)
        => /\ call.err = "none"
           /\ {call.summary[i].Month : i \in 1..Len(call.summary)}
                = {MonthOfRow(filtered.rows[i]) : i \in 1..Len(filtered.rows)}
           /\ \A i \in 1..Len(call.summary) :
                LET rec == call.summary[i]
                    x == ValidValues(RowsOfMonth(filtered.rows, rec.Month))
                    n == Len(x)
                IN  /\ (n = 0 => rec.mean = NaNStat /\ rec.std = NaNStat)
                    /\ (n > 0 => /\ rec.mean.k = "num"
                                 /\ rec.mean.n * n = rec.mean.d * SumSeq(x))

\* C7: a call that fails leaves the loaded dataset as it was; a call that
\* fails on a bad Date value, a bad start or end string or an unknown metric
\* (all of them ValueError) also leaves the filtered frame as it was.
C7_FailureLeavesDataset ==
    [][/\ (call'.err # "none" => data' = data)
       /\ (call'.err = "ValueError" => data' = data /\ filtered' = filtered)]_vars

C7_Witness ==
    /\ call.op = "preprocess" /\ call.err = "ValueError"
    /\ Len(data.rows) = MaxRows
    /\ \E i \in 1..Len(data.rows) : data.rows[i].Date.ok

\* The position of the row with the given id.
PosOf(rows, id) == CHOOSE k \in 1..Len(rows) : rows[k].id = id
IsStableSortOf(before, after) ==
    /\ IsSortedByDate(after)
    /\ Len(after) = Len(before)
    /\ {after[i].id : i \in 1..Len(after)} = {before[i].id : i \in 1..Len(before)}
    /\ \A i, j \in 1..Len(after) :
          (i < j /\ after[i].Date = after[j].Date)
              => PosOf(before, after[i].id) < PosOf(before, after[j].id)

\* C8: normalize leaves the rows sorted by Date ascending, each row kept once,
\* and rows of equal Date in the order they had before the call.
C8_NormalizeStableSort ==
    [][(call'.op = "preprocess" /\ call'.err = "none")
          => IsStableSortOf(data.rows, data'.rows)]_vars

\* C9 as stated: filter with two valid dates, start after end, raises RangeError.
C9_ReversedRangeRaises ==
    (ValidRange /\ call.start.day > call.end.day) => call.err = "RangeError"

\* C9 as amended: on a normalized dataset, filter with two valid dates, start
\* after end, raises nothing and returns a frame without rows.
C9_ReversedRangeEmpty ==
    (ValidRange /\ Normalized /\ call.start.day > call.end.day)
        => /\ call.err = "none"
           /\ filtered.live /\ filtered.rows = <<>>

C9_Witness ==
    /\ ValidRange /\ Normalized /\ call.start.day > call.end.day
    /\ \E i \in 1..Len(data.rows) :
          /\ DayOf(data.rows[i].Date) <= call.start.day
          /\ DayOf(data.rows[i].Date) >= call.end.day

\* C10: summarize leaves the frame it is given as it was: same rows, same
\* columns.
C10_SummarizeLeavesFrame ==
    [][call'.op = "summarize" => filtered' = filtered]_vars
====
